---- MODULE Spec2Model ----
(***************************************************************************)
(* The User resource of the Domo client: the User entity with its serde    *)
(* mapping, the two constructors, and the six request operations of        *)
(* `impl Client` in src/public/user/mod.rs.                                *)
(***************************************************************************)
EXTENDS Integers, Sequences, FiniteSets, TLC

VARIABLES
    pc,        \* position of the running operation
    op,        \* name of the running operation ("" when idle)
    args,      \* its arguments: limit, offset, id, user, emails (each an Option)
    at,        \* the access token bound by `let at = ...?` (Option)
    log,       \* calls made so far by the operation, in order
    scopes,    \* scopes passed to get_access_token so far
    sent,      \* requests handed to the transport so far
    resp,      \* the response received (Option)
    decodes,   \* bodies decoded so far
    result,    \* the value returned (Option of a Result)
    ctor,      \* how the in-memory User was obtained
    val,       \* the in-memory User (Option)
    doc,       \* the JSON document at hand (Option)
    docFrom,   \* where the document came from: "serialize" or "wire"
    out        \* result of deserializing doc (Option of a Result)

clientVars == <<pc, op, args, at, log, scopes, sent, resp, decodes, result>>
serdeVars == <<ctor, val, doc, docFrom, out>>
vars == <<pc, op, args, at, log, scopes, sent, resp, decodes, result,
          ctor, val, doc, docFrom, out>>

----------------------------------------------------------------------------
(* Bounds of the model *)

\* u32 field values of the sample users range over 0..MaxId
MaxId == 1
\* limit and offset range over 0..MaxPage
MaxPage == 10
\* longest email sequence handed to post_bulk_user_emails
MaxEmails == 2
\* longest JSON array in a response body
MaxUsers == 2
\* most members in a JSON object received from the wire
MaxMembers == 2

----------------------------------------------------------------------------
(* Option and Result *)

None == <<>>
Some(v) == <<v>>
IsSome(o) == Len(o) = 1
IsNone(o) == Len(o) = 0
Unwrap(o) == o[1]

Ok(v) == [ok |-> TRUE, v |-> Some(v), err |-> ""]
Err(e) == [ok |-> FALSE, v |-> None, err |-> e]

----------------------------------------------------------------------------
(* JSON values *)

JNull == [t |-> "null"]
JNum(n) == [t |-> "num", n |-> n]
JStr(s) == [t |-> "str", s |-> s]
JBool(b) == [t |-> "bool", b |-> b]
JObj(members) == [t |-> "obj", members |-> members]   \* a sequence of <<key, value>>
JArr(items) == [t |-> "arr", items |-> items]
JInvalid == [t |-> "invalid"]                         \* bytes that are not JSON

JKeys(j) == [i \in 1..Len(j.members) |-> j.members[i][1]]

----------------------------------------------------------------------------
(* The User entity *)

\* the fields of struct User, in declaration order
Fields ==
    << "id", "name", "email", "alternate_email", "employee_number", "title",
       "phone", "location", "timezone", "locale", "role", "deleted" >>

FieldSet == {Fields[i] : i \in 1..Len(Fields)}

FieldType(f) ==
    CASE f \in {"id", "employee_number"} -> "u32"
      [] f = "deleted" -> "bool"
      [] OTHER -> "String"

\* the words of a snake_case field name
Words(f) ==
    CASE f = "alternate_email" -> <<"alternate", "email">>
      [] f = "employee_number" -> <<"employee", "number">>
      [] OTHER -> <<f>>

Capitalize(w) ==
    CASE w = "email" -> "Email"
      [] w = "number" -> "Number"
      [] OTHER -> w

RECURSIVE CamelTail(_)
CamelTail(ws) ==
    IF ws = <<>> THEN "" ELSE Capitalize(Head(ws)) \o CamelTail(Tail(ws))

SnakeCase(f) == f

\* #[serde(rename_all = "camelCase")]
CamelCase(f) == Head(Words(f)) \o CamelTail(Tail(Words(f)))

\* a new() that presets the id
User_new_Id ==
    [ id |-> Some(0), name |-> None, email |-> None, alternate_email |-> None,
      employee_number |-> None, title |-> None, phone |-> None,
      location |-> None, timezone |-> None, locale |-> None, role |-> None,
      deleted |-> None ]

\* User::new()
User_new ==
    [ id |-> None, name |-> None, email |-> None, alternate_email |-> None,
      employee_number |-> None, title |-> None, phone |-> None,
      location |-> None, timezone |-> None, locale |-> None, role |-> None,
      deleted |-> None ]

\* a Default that fills in zero and the empty string
User_default_Zero ==
    [f \in FieldSet |->
        CASE FieldType(f) = "u32" -> Some(0)
          [] FieldType(f) = "bool" -> Some(FALSE)
          [] OTHER -> Some("")]

\* #[derive(Default)]: every Option field defaults to None
User_default == [f \in FieldSet |-> None]

\* User::template()
User_template ==
    [ id |-> Some(0),
      name |-> Some("First Last"),
      email |-> Some("First.Last@company.com"),
      alternate_email |-> Some("first.last@gmail.com"),
      employee_number |-> Some(0),
      title |-> Some("Title"),
      phone |-> Some("+1 (800) 700-6000"),
      location |-> Some("CA"),
      timezone |-> Some("America/Los_Angeles"),
      locale |-> Some("en-US"),
      role |-> Some("Admin - Match roles defined in instance"),
      deleted |-> Some(FALSE) ]

\* serialization of one Option field: None is written as null
SerializeField(f, o) ==
    IF IsNone(o) THEN JNull
    ELSE CASE FieldType(f) = "u32" -> JNum(Unwrap(o))
           [] FieldType(f) = "bool" -> JBool(Unwrap(o))
           [] OTHER -> JStr(Unwrap(o))

\* #[derive(Serialize)]: one member per field, in declaration order
Serialize(u) ==
    JObj([i \in 1..Len(Fields) |->
            <<CamelCase(Fields[i]), SerializeField(Fields[i], u[Fields[i]])>>])

\* deserialization of one Option field: null is None, a value of the field's
\* type is Some, anything else is an error (every number of the model is
\* below 2^32, so a number is a u32 unless it is negative)
DeserializeField(f, j) ==
    IF j.t = "null" THEN Ok(None)
    ELSE CASE FieldType(f) = "u32" ->
                IF j.t = "num" /\ j.n >= 0
                THEN Ok(Some(j.n)) ELSE Err("decode")
           [] FieldType(f) = "bool" ->
                IF j.t = "bool" THEN Ok(Some(j.b)) ELSE Err("decode")
           [] OTHER ->
                IF j.t = "str" THEN Ok(Some(j.s)) ELSE Err("decode")

\* the field a JSON key names, if any
FieldOfKey(k) ==
    IF \E f \in FieldSet : CamelCase(f) = k
    THEN Some(CHOOSE f \in FieldSet : CamelCase(f) = k)
    ELSE None

\* the map visitor of #[derive(Deserialize)]: members are visited in order,
\* `seen` are the fields already set in `acc`, which starts as the default
RECURSIVE VisitMap(_, _, _)
VisitMap(members, seen, acc) ==
    IF members = <<>> THEN Ok(acc)
    ELSE LET k == Head(members)[1]
             j == Head(members)[2]
             fo == FieldOfKey(k)
         IN IF IsNone(fo) THEN VisitMap(Tail(members), seen, acc)
            ELSE LET f == Unwrap(fo)
                     r == DeserializeField(f, j)
                 IN IF f \in seen THEN Err("decode")
                    ELSE IF ~r.ok THEN Err("decode")
                    ELSE VisitMap(Tail(members), seen \cup {f},
                                  [acc EXCEPT ![f] = Unwrap(r.v)])

\* the sequence visitor of #[derive(Deserialize)]: element i is field i,
\* fields past the end keep the default, elements past the last field are
\* an error
RECURSIVE VisitSeq(_, _, _)
VisitSeq(items, i, acc) ==
    IF items = <<>> THEN Ok(acc)
    ELSE IF i > Len(Fields) THEN Err("decode")
    ELSE LET r == DeserializeField(Fields[i], Head(items))
         IN IF ~r.ok THEN Err("decode")
            ELSE VisitSeq(Tail(items), i + 1,
                          [acc EXCEPT ![Fields[i]] = Unwrap(r.v)])

\* #[derive(Deserialize)] #[serde(default)]: a struct is read from a JSON
\* object or from a JSON array
Deserialize(j) ==
    CASE j.t = "obj" -> VisitMap(j.members, {}, User_default)
      [] j.t = "arr" -> VisitSeq(j.items, 1, User_default)
      [] OTHER -> Err("decode")

RECURSIVE DeserializeSeq(_)
DeserializeSeq(items) ==
    IF items = <<>> THEN Ok(<<>>)
    ELSE LET h == Deserialize(Head(items))
             r == DeserializeSeq(Tail(items))
         IN IF ~h.ok THEN Err("decode")
            ELSE IF ~r.ok THEN Err("decode")
            ELSE Ok(<<Unwrap(h.v)>> \o Unwrap(r.v))

\* Vec<User> from a JSON array
DeserializeVec(j) ==
    IF j.t = "arr" THEN DeserializeSeq(j.items) ELSE Err("decode")

----------------------------------------------------------------------------
(* Sample values *)

SampleOf(f) ==
    CASE FieldType(f) = "u32" -> 0
      [] FieldType(f) = "bool" -> TRUE
      [] OTHER -> "x"

\* the User whose present fields are exactly those of mask
SampleUser(mask) ==
    [f \in FieldSet |-> IF f \in mask THEN Some(SampleOf(f)) ELSE None]

U32Samples == {Some(n) : n \in 0..MaxId}
StrSamples == {Some("x"), Some("y")}
BoolSamples == {Some(TRUE), Some(FALSE)}

\* users with every field present
FullUsers ==
    [ id : U32Samples, name : StrSamples, email : StrSamples,
      alternate_email : StrSamples, employee_number : U32Samples,
      title : StrSamples, phone : StrSamples, location : StrSamples,
      timezone : StrSamples, locale : StrSamples, role : StrSamples,
      deleted : BoolSamples ]

PartialUsers == {SampleUser(m) : m \in SUBSET FieldSet}

Users == FullUsers \cup PartialUsers \cup {User_template}

\* the tombstone of a deleted user
Tombstone == JObj(<< <<"id", JNum(5)>>, <<"deleted", JBool(TRUE)>> >>)

\* sequences over S of length at most n
SeqUpTo(S, n) == UNION {[1..k -> S] : k \in 0..n}

\* JSON objects received from the wire
DocKeys == {"id", "deleted", "name", "alternateEmail", "alternate_email", "extra"}
DocValues == {JNull, JNum(5), JNum(-1), JStr("a"), JBool(TRUE)}
Docs == {JObj(ms) : ms \in SeqUpTo(DocKeys \X DocValues, MaxMembers)}

----------------------------------------------------------------------------
(* Requests *)

\* self.host of the shared client
host == "https://api.domo.com"

Digit(d) == <<"0", "1", "2", "3", "4", "5", "6", "7", "8", "9">>[d + 1]

\* u32::to_string: the decimal digits, most significant first
RECURSIVE to_string(_)
to_string(n) ==
    IF n < 10 THEN Digit(n) ELSE to_string(n \div 10) \o Digit(n % 10)

\* the pairs pushed in the other order
QueryPairs_OffsetFirst(limit, offset) ==
    (IF IsSome(offset) THEN << <<"offset", to_string(Unwrap(offset))>> >> ELSE <<>>)
    \o (IF IsSome(limit) THEN << <<"limit", to_string(Unwrap(limit))>> >> ELSE <<>>)

\* the pairs pushed to q by get_users: limit first, then offset
QueryPairs(limit, offset) ==
    (IF IsSome(limit) THEN << <<"limit", to_string(Unwrap(limit))>> >> ELSE <<>>)
    \o (IF IsSome(offset) THEN << <<"offset", to_string(Unwrap(offset))>> >> ELSE <<>>)

RECURSIVE QueryString(_)
QueryString(q) ==
    IF q = <<>> THEN ""
    ELSE Head(q)[1] \o "=" \o Head(q)[2]
         \o (IF Tail(q) = <<>> THEN "" ELSE "&" \o QueryString(Tail(q)))

\* RequestBuilder::query: the pairs become the query string of the URL; an
\* empty list of pairs leaves the URL without one
WithQuery(url, q) == IF q = <<>> THEN url ELSE url \o "?" \o QueryString(q)

\* RequestBuilder::json on a slice of strings
EmailsJson(emails) == JArr([i \in 1..Len(emails) |-> JStr(emails[i])])

AuthHeader(token) == <<"Authorization", token>>
JsonHeader == <<"Content-Type", "application/json">>

Req_get_users(token, a) ==
    [ method |-> "GET",
      url |-> WithQuery(host \o "/v1/users", QueryPairs(a.limit, a.offset)),
      headers |-> <<AuthHeader(token)>>,
      body |-> None ]

Req_post_bulk_user_emails(token, a) ==
    [ method |-> "POST",
      url |-> host \o "/v1/users/bulk/emails",
      headers |-> <<AuthHeader(token), JsonHeader>>,
      body |-> Some(EmailsJson(Unwrap(a.emails))) ]

Req_post_user(token, a) ==
    [ method |-> "POST",
      url |-> host \o "/v1/users",
      headers |-> <<AuthHeader(token), JsonHeader>>,
      body |-> Some(Serialize(Unwrap(a.user))) ]

Req_get_user(token, a) ==
    [ method |-> "GET",
      url |-> host \o "/v1/users/" \o Unwrap(a.id),
      headers |-> <<AuthHeader(token)>>,
      body |-> None ]

\* an update sent with the verb of create
Req_put_user_Post(token, a) ==
    [ method |-> "POST",
      url |-> host \o "/v1/users/" \o Unwrap(a.id),
      headers |-> <<AuthHeader(token), JsonHeader>>,
      body |-> Some(Serialize(Unwrap(a.user))) ]

Req_put_user(token, a) ==
    [ method |-> "PUT",
      url |-> host \o "/v1/users/" \o Unwrap(a.id),
      headers |-> <<AuthHeader(token), JsonHeader>>,
      body |-> Some(Serialize(Unwrap(a.user))) ]

Req_delete_user(token, a) ==
    [ method |-> "DELETE",
      url |-> host \o "/v1/users/" \o Unwrap(a.id),
      headers |-> <<AuthHeader(token)>>,
      body |-> None ]

\* the request each operation builds
Request(o, token, a) ==
    CASE o = "get_users" -> Req_get_users(token, a)
      [] o = "post_bulk_user_emails" -> Req_post_bulk_user_emails(token, a)
      [] o = "post_user" -> Req_post_user(token, a)
      [] o = "get_user" -> Req_get_user(token, a)
      [] o = "put_user" -> Req_put_user(token, a)
      [] o = "delete_user" -> Req_delete_user(token, a)

\* the scope each operation passes to get_access_token
ScopeOf(o) == "user"

\* a status check that lets client errors through
IsErrorStatus_ServerOnly(status) == status >= 500 /\ status < 600

\* Response::error_for_status: client and server error statuses are errors
IsErrorStatus(status) ==
    (status >= 400 /\ status < 500) \/ (status >= 500 /\ status < 600)

\* every operation decoding the body
Decodes_All(o) == TRUE

\* the operations that end with .json()
Decodes(o) == o # "delete_user"

\* Response::json into the operation's return type
Decode(o, body) ==
    IF o \in {"get_users", "post_bulk_user_emails"}
    THEN DeserializeVec(body)
    ELSE Deserialize(body)

----------------------------------------------------------------------------
(* Inputs of the operations and answers of the collaborators *)

PageValues == {None} \cup {Some(n) : n \in 0..MaxPage}
Ids == {"42", "7"}
Emails == {"a@x.com", "b@x.com"}
EmailLists == SeqUpTo(Emails, MaxEmails)
ReqUsers ==
    { User_new, User_template, SampleUser({"id", "deleted"}),
      SampleUser({"name", "email"}), SampleUser(FieldSet \ {"id"}) }

Tokens == {"bearer A", "bearer B"}
Statuses == {200, 204, 304, 404, 500}

BadObject == JObj(<< <<"id", JStr("x")>> >>)
Bodies ==
    {JInvalid, JNull, Serialize(User_template), Tombstone, BadObject}
    \cup {JArr(items) : items \in SeqUpTo({Tombstone, BadObject}, MaxUsers)}

NoArgs == [limit |-> None, offset |-> None, id |-> None, user |-> None, emails |-> None]

----------------------------------------------------------------------------
(* State *)

Init ==
    /\ pc = "idle"
    /\ op = ""
    /\ args = NoArgs
    /\ at = None
    /\ log = <<>>
    /\ scopes = <<>>
    /\ sent = <<>>
    /\ resp = None
    /\ decodes = 0
    /\ result = None
    /\ ctor = ""
    /\ val = None
    /\ doc = None
    /\ docFrom = ""
    /\ out = None

\* what the entry of an operation leaves alone: nothing has been called yet
entryRest == <<at, log, scopes, sent, resp, decodes, result>>

get_users ==
    /\ pc = "idle"
    /\ pc' = "get_access_token"
    /\ op' = "get_users"
    /\ \E limit \in PageValues, offset \in PageValues :
            args' = [NoArgs EXCEPT !.limit = limit, !.offset = offset]
    /\ UNCHANGED entryRest
    /\ UNCHANGED serdeVars

post_bulk_user_emails ==
    /\ pc = "idle"
    /\ pc' = "get_access_token"
    /\ op' = "post_bulk_user_emails"
    /\ \E emails \in EmailLists :
            args' = [NoArgs EXCEPT !.emails = Some(emails)]
    /\ UNCHANGED entryRest
    /\ UNCHANGED serdeVars

post_user ==
    /\ pc = "idle"
    /\ pc' = "get_access_token"
    /\ op' = "post_user"
    /\ \E user \in ReqUsers :
            args' = [NoArgs EXCEPT !.user = Some(user)]
    /\ UNCHANGED entryRest
    /\ UNCHANGED serdeVars

get_user ==
    /\ pc = "idle"
    /\ pc' = "get_access_token"
    /\ op' = "get_user"
    /\ \E id \in Ids :
            args' = [NoArgs EXCEPT !.id = Some(id)]
    /\ UNCHANGED entryRest
    /\ UNCHANGED serdeVars

put_user ==
    /\ pc = "idle"
    /\ pc' = "get_access_token"
    /\ op' = "put_user"
    /\ \E id \in Ids, user \in ReqUsers :
            args' = [NoArgs EXCEPT !.id = Some(id), !.user = Some(user)]
    /\ UNCHANGED entryRest
    /\ UNCHANGED serdeVars

delete_user ==
    /\ pc = "idle"
    /\ pc' = "get_access_token"
    /\ op' = "delete_user"
    /\ \E id \in Ids :
            args' = [NoArgs EXCEPT !.id = Some(id)]
    /\ UNCHANGED entryRest
    /\ UNCHANGED serdeVars

\* the operation returns r
Finish(r) ==
    /\ result' = Some(r)
    /\ pc' = "done"

\* `let at = self.get_access_token("user")?;` when the collaborator answers
\* with a token
get_access_token_ok ==
    /\ pc = "get_access_token"
    /\ \E token \in Tokens : at' = Some(token)
    /\ scopes' = Append(scopes, ScopeOf(op))
    /\ log' = Append(log, "get_access_token")
    /\ pc' = "send"
    /\ UNCHANGED <<op, args, sent, resp, decodes, result>>
    /\ UNCHANGED serdeVars

\* the retried form of a failed call, which the code does not have
get_access_token_retry ==
    /\ pc = "get_access_token"
    /\ Len(scopes) < 2
    /\ scopes' = Append(scopes, ScopeOf(op))
    /\ log' = Append(log, "get_access_token")
    /\ UNCHANGED <<pc, op, args, at, sent, resp, decodes, result>>
    /\ UNCHANGED serdeVars

\* `self.get_access_token("user")?` when the collaborator fails: the error
\* is returned
get_access_token_err ==
    /\ pc = "get_access_token"
    /\ scopes' = Append(scopes, ScopeOf(op))
    /\ log' = Append(log, "get_access_token")
    /\ Finish(Err("auth"))
    /\ UNCHANGED <<op, args, at, sent, resp, decodes>>
    /\ UNCHANGED serdeVars

\* the request is built and `.send()?` returns a response
send_ok ==
    /\ pc = "send"
    /\ sent' = Append(sent, Request(op, Unwrap(at), args))
    /\ log' = Append(log, "send")
    /\ \E status \in Statuses, body \in Bodies :
            resp' = Some([status |-> status, body |-> body])
    /\ pc' = "error_for_status"
    /\ UNCHANGED <<op, args, at, scopes, decodes, result>>
    /\ UNCHANGED serdeVars

\* the resending form of a failed send, which the code does not have
send_retry ==
    /\ pc = "send"
    /\ Len(sent) < 2
    /\ sent' = Append(sent, Request(op, Unwrap(at), args))
    /\ log' = Append(log, "send")
    /\ UNCHANGED <<pc, op, args, at, scopes, resp, decodes, result>>
    /\ UNCHANGED serdeVars

\* the request is built and `.send()?` fails in the transport: the error is
\* returned
send_err ==
    /\ pc = "send"
    /\ sent' = Append(sent, Request(op, Unwrap(at), args))
    /\ log' = Append(log, "send")
    /\ Finish(Err("transport"))
    /\ UNCHANGED <<op, args, at, scopes, resp, decodes>>
    /\ UNCHANGED serdeVars

\* `.error_for_status()?`, and for delete_user the `Ok(())` after it
error_for_status ==
    /\ pc = "error_for_status"
    /\ log' = Append(log, "error_for_status")
    /\ IF IsErrorStatus(Unwrap(resp).status)
       THEN Finish(Err("status"))
       ELSE IF Decodes(op)
       THEN pc' = "json" /\ UNCHANGED result
       ELSE Finish(Ok("()"))
    /\ UNCHANGED <<op, args, at, scopes, sent, resp, decodes>>
    /\ UNCHANGED serdeVars

\* `Ok(... .json()?)`
json ==
    /\ pc = "json"
    /\ log' = Append(log, "json")
    /\ decodes' = decodes + 1
    /\ Finish(Decode(op, Unwrap(resp).body))
    /\ UNCHANGED <<op, args, at, scopes, sent, resp>>
    /\ UNCHANGED serdeVars

\* the caller has the result; the next invocation starts afresh
Return ==
    /\ pc = "done"
    /\ pc' = "idle"
    /\ op' = ""
    /\ args' = NoArgs
    /\ at' = None
    /\ log' = <<>>
    /\ scopes' = <<>>
    /\ sent' = <<>>
    /\ resp' = None
    /\ decodes' = 0
    /\ result' = None
    /\ UNCHANGED serdeVars

Next ==
    \/ get_users
    \/ post_bulk_user_emails
    \/ post_user
    \/ get_user
    \/ put_user
    \/ delete_user
    \/ get_access_token_ok
    \/ get_access_token_err
    \/ send_ok
    \/ send_err
    \/ error_for_status
    \/ json
    \/ Return

Spec == Init /\ [][Next]_vars

----------------------------------------------------------------------------
(* The User entity on its own: constructors, serialization, deserialization *)

Fresh == ctor = "" /\ IsNone(val) /\ IsNone(doc)

new ==
    /\ Fresh
    /\ ctor' = "new"
    /\ val' = Some(User_new)
    /\ UNCHANGED <<doc, docFrom, out>>
    /\ UNCHANGED clientVars

template ==
    /\ Fresh
    /\ ctor' = "template"
    /\ val' = Some(User_template)
    /\ UNCHANGED <<doc, docFrom, out>>
    /\ UNCHANGED clientVars

default ==
    /\ Fresh
    /\ ctor' = "default"
    /\ val' = Some(User_default)
    /\ UNCHANGED <<doc, docFrom, out>>
    /\ UNCHANGED clientVars

\* a struct literal: all fields are public
literal ==
    /\ Fresh
    /\ ctor' = "literal"
    /\ \E u \in Users : val' = Some(u)
    /\ UNCHANGED <<doc, docFrom, out>>
    /\ UNCHANGED clientVars

\* serde_json::to_value(&user)
to_json ==
    /\ IsSome(val)
    /\ IsNone(doc)
    /\ doc' = Some(Serialize(Unwrap(val)))
    /\ docFrom' = "serialize"
    /\ UNCHANGED <<ctor, val, out>>
    /\ UNCHANGED clientVars

\* a JSON object arrives from the remote service
receive ==
    /\ Fresh
    /\ \E d \in Docs : doc' = Some(d)
    /\ docFrom' = "wire"
    /\ UNCHANGED <<ctor, val, out>>
    /\ UNCHANGED clientVars

\* serde_json::from_value::<User>(doc)
from_json ==
    /\ IsSome(doc)
    /\ IsNone(out)
    /\ out' = Some(Deserialize(Unwrap(doc)))
    /\ UNCHANGED <<ctor, val, doc, docFrom>>
    /\ UNCHANGED clientVars

SerdeNext ==
    \/ new
    \/ template
    \/ default
    \/ literal
    \/ to_json
    \/ receive
    \/ from_json

SerdeSpec == Init /\ [][SerdeNext]_vars

----------------------------------------------------------------------------
(* Properties of the operations, checked under Spec *)

Res == Unwrap(result)
Status == Unwrap(resp).status
Is2xx(status) == status >= 200 /\ status < 300
Done == pc = "done"

\* C1: one invocation sends at most one HTTP request, and exactly one once
\* the token was acquired and the operation has got past its send; no
\* outcome of the request (transport failure, error status, decode failure)
\* leads to a second one.
C1_OneRequest ==
    /\ Len(sent) <= 1
    /\ pc \in {"error_for_status", "json"} => Len(sent) = 1
    /\ Done /\ IsSome(at) => Len(sent) = 1
    /\ Done /\ IsNone(at) => Len(sent) = 0

C1_Witness ==
    /\ Done
    /\ Len(sent) = 1
    /\ ~Res.ok
    /\ Res.err = "decode"

\* C2: get_access_token is called with scope "user" exactly once and before
\* anything else; when it fails the operation returns an error, no request
\* is sent and the call is not repeated.
C2_TokenFirst ==
    /\ Len(scopes) <= 1
    /\ \A i \in 1..Len(scopes) : scopes[i] = "user"
    /\ pc \notin {"idle", "get_access_token"} =>
            /\ scopes = <<"user">>
            /\ log[1] = "get_access_token"
            /\ \A i \in 2..Len(log) : log[i] # "get_access_token"
    /\ Len(sent) > 0 => IsSome(at) /\ scopes = <<"user">>
    /\ Done /\ IsNone(at) =>
            /\ ~Res.ok
            /\ Res.err = "auth"
            /\ sent = <<>>
            /\ log = <<"get_access_token">>

C2_Witness ==
    /\ Done
    /\ IsNone(at)
    /\ scopes = <<"user">>
    /\ ~Res.ok

Present(u) == {f \in FieldSet : IsSome(u[f])}

\* the JSON key of each field, as the remote service names it
WireKey ==
    [ id |-> "id", name |-> "name", email |-> "email",
      alternate_email |-> "alternateEmail",
      employee_number |-> "employeeNumber", title |-> "title",
      phone |-> "phone", location |-> "location", timezone |-> "timezone",
      locale |-> "locale", role |-> "role", deleted |-> "deleted" ]

KeySet(j) == {j.members[i][1] : i \in 1..Len(j.members)}

\* C4: the User body sent by post_user and put_user lacks the keys of
\* exactly the absent fields: its keys are those of the present fields.
C4_AbsentOmitted ==
    op \in {"post_user", "put_user"} /\ Len(sent) > 0 =>
        KeySet(Unwrap(sent[1].body)) = {WireKey[f] : f \in Present(Unwrap(args.user))}

\* the decimal numerals of 0..11
Decimal == <<"0", "1", "2", "3", "4", "5", "6", "7", "8", "9", "10", "11">>

\* C7: get_users sends a GET to {host}/v1/users whose query has limit iff
\* limit is Some and offset iff offset is Some, each with its decimal value
\* and limit before offset; (None, None) sends no query and
\* (Some(10), Some(0)) sends limit=10&offset=0.
C7_Query ==
    op = "get_users" /\ Len(sent) > 0 =>
        LET l == args.limit
            o == args.offset
            lp == IF IsSome(l) THEN "limit=" \o Decimal[Unwrap(l) + 1] ELSE ""
            opart == IF IsSome(o) THEN "offset=" \o Decimal[Unwrap(o) + 1] ELSE ""
            amp == IF IsSome(l) /\ IsSome(o) THEN "&" ELSE ""
            mark == IF IsSome(l) \/ IsSome(o) THEN "?" ELSE ""
        IN /\ sent[1].method = "GET"
           /\ sent[1].url = "https://api.domo.com/v1/users" \o mark \o lp \o amp \o opart
           /\ IsNone(l) /\ IsNone(o) => sent[1].url = "https://api.domo.com/v1/users"
           /\ l = Some(10) /\ o = Some(0) =>
                  sent[1].url = "https://api.domo.com/v1/users?limit=10&offset=0"

C7_Witness ==
    /\ op = "get_users"
    /\ Len(sent) = 1
    /\ args.limit = Some(10)
    /\ args.offset = Some(0)

\* the headers of r named n
HeaderValues(r, n) ==
    {r.headers[i][2] : i \in {k \in 1..Len(r.headers) : r.headers[k][1] = n}}

\* C8: each operation uses the verb, path and body of the operation
\* catalog, and every request carries an Authorization header whose value
\* is the token get_access_token returned.
C8_Catalog ==
    Len(sent) > 0 =>
        LET r == sent[1]
            base == "https://api.domo.com/v1/users"
        IN /\ HeaderValues(r, "Authorization") = {Unwrap(at)}
           /\ op = "get_users" =>
                  r.method = "GET" /\ IsNone(r.body)
           /\ op = "get_users" /\ IsNone(args.limit) /\ IsNone(args.offset) =>
                  r.url = base
           /\ op = "post_bulk_user_emails" =>
                  /\ r.method = "POST"
                  /\ r.url = base \o "/bulk/emails"
                  /\ IsSome(r.body)
                  /\ Unwrap(r.body).t = "arr"
                  /\ LET items == Unwrap(r.body).items
                         emails == Unwrap(args.emails)
                     IN /\ Len(items) = Len(emails)
                        /\ \A i \in 1..Len(items) :
                               items[i].t = "str" /\ items[i].s = emails[i]
           /\ op = "post_user" =>
                  /\ r.method = "POST"
                  /\ r.url = base
                  /\ r.body = Some(Serialize(Unwrap(args.user)))
           /\ op = "get_user" =>
                  /\ r.method = "GET"
                  /\ r.url = base \o "/" \o Unwrap(args.id)
                  /\ IsNone(r.body)
           /\ op = "put_user" =>
                  /\ r.method = "PUT"
                  /\ r.url = base \o "/" \o Unwrap(args.id)
                  /\ r.body = Some(Serialize(Unwrap(args.user)))
           /\ op = "delete_user" =>
                  /\ r.method = "DELETE"
                  /\ r.url = base \o "/" \o Unwrap(args.id)
                  /\ IsNone(r.body)

C8_Witness ==
    /\ op = "put_user"
    /\ Len(sent) = 1
    /\ sent[1].method = "PUT"
    /\ sent[1].url = "https://api.domo.com/v1/users/42"
    /\ at = Some("bearer B")

\* C10: a value-returning operation returns Ok exactly when token
\* acquisition, transport, status check and decode all succeed, in that
\* order, and then returns the decoded body; a failed decode is an error;
\* delete_user never decodes and returns Ok(()) on any 2xx response.
C10_Decode ==
    /\ Done /\ op # "delete_user" =>
            /\ Res.ok <=>
                    /\ IsSome(at)
                    /\ IsSome(resp)
                    /\ ~(Status >= 400 /\ Status <= 599)
                    /\ Decode(op, Unwrap(resp).body).ok
            /\ Res.ok =>
                    /\ log = <<"get_access_token", "send", "error_for_status", "json">>
                    /\ decodes = 1
                    /\ Unwrap(Res.v) = Unwrap(Decode(op, Unwrap(resp).body).v)
            /\ IsSome(resp) /\ Is2xx(Status) =>
                    /\ decodes = 1
                    /\ ~Decode(op, Unwrap(resp).body).ok =>
                            ~Res.ok /\ Res.err = "decode"
    /\ op = "delete_user" =>
            /\ decodes = 0
            /\ pc # "json"
            /\ Done /\ IsSome(resp) /\ Is2xx(Status) =>
                    Res.ok /\ Unwrap(Res.v) = "()"

C10_Witness ==
    /\ Done
    /\ op = "delete_user"
    /\ IsSome(resp)
    /\ Status = 204
    /\ Unwrap(resp).body.t = "invalid"
    /\ Res.ok

----------------------------------------------------------------------------
(* Properties of the User entity, checked under SerdeSpec *)

Value == Unwrap(val)
Document == Unwrap(doc)
Output == Unwrap(out)

\* C5: a User with all twelve fields present, serialized and deserialized
\* again, is the original field by field, and the JSON keys are the
\* camelCase names of the fields.
C5_RoundTrip ==
    IsSome(val) /\ Present(Value) = FieldSet /\ docFrom = "serialize" =>
        /\ JKeys(Document) =
              << "id", "name", "email", "alternateEmail", "employeeNumber",
                 "title", "phone", "location", "timezone", "locale", "role",
                 "deleted" >>
        /\ IsSome(out) =>
              /\ Output.ok
              /\ \A f \in FieldSet : Unwrap(Output.v)[f] = Value[f]

C5_Witness ==
    /\ ctor = "template"
    /\ docFrom = "serialize"
    /\ IsSome(out)
    /\ Output.ok
    /\ Unwrap(Output.v).alternate_email = Some("first.last@gmail.com")

\* the members of d whose key names field f
MembersOf(d, f) == {i \in 1..Len(d.members) : d.members[i][1] = WireKey[f]}

\* the JSON value j is null or of the type of field f
Fits(f, j) ==
    \/ j.t = "null"
    \/ FieldType(f) = "u32" /\ j.t = "num" /\ j.n >= 0
    \/ FieldType(f) = "bool" /\ j.t = "bool"
    \/ FieldType(f) = "String" /\ j.t = "str"

\* what field f holds after reading the JSON value j
Read(f, j) ==
    CASE j.t = "null" -> None
      [] j.t = "num" -> Some(j.n)
      [] j.t = "bool" -> Some(j.b)
      [] j.t = "str" -> Some(j.s)

\* C6: deserializing a JSON object sets every field whose key is missing to
\* None and ignores unknown keys: it succeeds exactly when no field is
\* named twice and every named field has a value of its type or null; and
\* {"id": 5, "deleted": true} yields id = 5, deleted = true and the other
\* ten fields absent.
C6_MissingIsNone ==
    docFrom = "wire" /\ IsSome(out) =>
        LET d == Document
            u == Unwrap(Output.v)
        IN /\ Output.ok <=>
                 \A f \in FieldSet :
                    /\ Cardinality(MembersOf(d, f)) <= 1
                    /\ \A i \in MembersOf(d, f) : Fits(f, d.members[i][2])
           /\ Output.ok =>
                 \A f \in FieldSet :
                    /\ MembersOf(d, f) = {} => u[f] = None
                    /\ \A i \in MembersOf(d, f) : u[f] = Read(f, d.members[i][2])
           /\ JKeys(d) = <<"id", "deleted">>
                /\ d.members[1][2] = JNum(5) /\ d.members[2][2] = JBool(TRUE) =>
                 /\ Output.ok
                 /\ u.id = Some(5)
                 /\ u.deleted = Some(TRUE)
                 /\ Present(u) = {"id", "deleted"}

C6_Witness ==
    /\ docFrom = "wire"
    /\ IsSome(out)
    /\ JKeys(Document) = <<"id", "deleted">>
    /\ Output.ok
    /\ Unwrap(Output.v).id = Some(5)
    /\ Unwrap(Output.v).deleted = Some(TRUE)
    /\ Unwrap(Output.v).name = None

\* C9: User::new() has every field absent, as the derived Default has, and
\* User::template() has every field present.
C9_Constructors ==
    /\ ctor \in {"new", "default"} => Present(Value) = {}
    /\ ctor = "new" => \A f \in FieldSet : Value[f] = User_default[f]
    /\ ctor = "template" => Present(Value) = FieldSet

C9_Witness ==
    /\ ctor = "new"
    /\ IsSome(val)
    /\ Present(Value) = {}

====
